---- MODULE Spec2Model ----
(***************************************************************************)
(* Model of printLLVMError (torchmlir_debugger.h).                         *)
(*                                                                         *)
(*   template <typename printType>                                         *)
(*   void printLLVMError(void (*func)(printType, MlirStringCallback,       *)
(*                                    void *),                             *)
(*                       printType obj, std::string message) {             *)
(*     std::stringstream ss;                                               *)
(*     ss << message;                                                      *)
(*     auto stringCallback = [](MlirStringRef s, void *userData) {         *)
(*       auto *ssp = static_cast<std::stringstream *>(userData);           *)
(*       ssp->write(s.data, s.length);                                     *)
(*     };                                                                  *)
(*     func(obj, stringCallback, static_cast<void *>(&ss));                *)
(*     llvm::errs() << ss.str() << "\n";                                   *)
(*   }                                                                     *)
(*                                                                         *)
(* Text is a sequence of bytes.  The call stack holds one frame per        *)
(* activation of printLLVMError; the address of a frame's stringstream is  *)
(* the frame's position in the stack.  The supplied printing function is   *)
(* the environment: it emits chunks through the callback, re-enters        *)
(* printLLVMError, returns, throws, or never returns.                      *)
(***************************************************************************)
EXTENDS Integers, Sequences, FiniteSets, TLC

VARIABLES stack, errs, calls, done

vars == <<stack, errs, calls, done>>

----------------------------------------------------------------------------
(* Bounds of the model *)

MaxCalls == 2

MaxDepth == 2

MaxMsgLen == 1

MaxText == 2

MaxChunks == 2

----------------------------------------------------------------------------
(* Bytes and texts *)

\* the byte of the "\n" literal written after the text
NL == 10

\* the bytes the inputs are built from: NUL, newline, 'a'
Chars == {0, NL, 97}

\* the objects a caller may hand over for printing
Objs == {"op", "type"}

SeqsUpTo(S, n) == UNION {[1..k -> S] : k \in 0..n}

Messages == SeqsUpTo(Chars, MaxMsgLen)

RECURSIVE Flatten(_)
Flatten(css) == IF css = <<>> THEN <<>> ELSE Head(css) \o Flatten(Tail(css))

RECURSIVE Count(_, _)
Count(c, s) ==
  IF s = <<>> THEN 0
  ELSE (IF Head(s) = c THEN 1 ELSE 0) + Count(c, Tail(s))

RECURSIVE SumLen(_)
SumLen(css) == IF css = <<>> THEN 0 ELSE Len(Head(css)) + SumLen(Tail(css))

\* the memory a chunk pointer designates: at least `length` bytes
Buffers == SeqsUpTo(Chars, MaxText)

\* the bytes a call has been given so far: its message and its chunks
TextLen(c) == Len(c.message) + SumLen(c.chunks)

\* the bytes of a NUL-terminated string starting at s (stops before the first NUL)
RECURSIVE CStr(_)
CStr(s) ==
  IF s = <<>> \/ Head(s) = 0 THEN <<>> ELSE <<Head(s)>> \o CStr(Tail(s))

----------------------------------------------------------------------------
(* The statements of printLLVMError *)

\* std::stringstream ss;
StaticStream == IF done = <<>> THEN <<>> ELSE calls[done[Len(done)]].acc

NewStream == <<>>

\* ss << message;  a std::string is inserted with all of its size() bytes
InsertCStr(ss, message) == ss \o CStr(message)

StreamInsert(ss, message) == ss \o message

\* ssp->write(s.data, s.length);
WritePrepend(ss, data, length) == SubSeq(data, 1, length) \o ss

WriteCStr(ss, data, length) == ss \o CStr(data)

WriteSpaced(ss, data, length) == ss \o SubSeq(data, 1, length) \o <<NL>>

StreamWrite(ss, data, length) == ss \o SubSeq(data, 1, length)

\* the lambda: the accumulator is the one userData points at
SharedCallback(stk, data, length, userData) ==
  [stk EXCEPT ![1].ss = StreamWrite(@, data, length)]

stringCallback(stk, data, length, userData) ==
  [stk EXCEPT ![userData].ss = StreamWrite(@, data, length)]

\* static_cast<void *>(&ss): the address of the calling frame's stream
AddrOfSS(stk) == Len(stk)

\* the object handed to func
OtherObj(o) == CHOOSE x \in Objs : x # o

PassObj(o) == o

\* ss.str(): the whole accumulated text
Str(ss) == ss

\* what leaves for the stream when ss is destroyed without line 26 being
\* reached: a stringstream's destructor discards its buffer
FlushOnUnwind(ss) == ss

Unwind(ss) == <<>>

\* the "\n" literal
DoubleNewline == <<NL, NL>>

NoNewline == <<>>

Newline == <<NL>>

----------------------------------------------------------------------------
(* State *)

Top == stack[Len(stack)]

TopIs(p) == stack # <<>> /\ Top.pc = p

NewCall(o, m, d, par) ==
  [obj |-> o, message |-> m, depth |-> d, parent |-> par,
   chunks |-> <<>>, invoked |-> 0, fobj |-> "none", ud |-> 0,
   acc |-> <<>>, out |-> <<>>, status |-> "active"]

Init ==
  /\ stack = <<>>
  /\ errs = <<>>
  /\ calls = <<>>
  /\ done = <<>>

\* printLLVMError is entered, from the caller or from a running printing
\* function, and constructs its stringstream
Call(o, m) ==
  /\ Len(calls) < MaxCalls
  /\ Len(stack) < MaxDepth
  /\ IF stack = <<>> THEN TRUE ELSE Top.pc = "printing"
  /\ LET id == Len(calls) + 1
         par == IF stack = <<>> THEN 0 ELSE Top.id
     IN /\ stack' = Append(stack,
                       [id |-> id, obj |-> o, message |-> m,
                        ss |-> NewStream, pc |-> "seed"])
        /\ calls' = Append(calls, NewCall(o, m, Len(stack) + 1, par))
  /\ UNCHANGED <<errs, done>>

\* ss << message;
Seed ==
  /\ TopIs("seed")
  /\ stack' = [stack EXCEPT ![Len(stack)].ss = StreamInsert(@, Top.message),
                            ![Len(stack)].pc = "invoke"]
  /\ UNCHANGED <<errs, calls, done>>

\* func(obj, stringCallback, &ss): control passes to the printing function
Invoke ==
  /\ TopIs("invoke")
  /\ stack' = [stack EXCEPT ![Len(stack)].pc = "printing"]
  /\ calls' = [calls EXCEPT ![Top.id].invoked = @ + 1,
                            ![Top.id].fobj = PassObj(Top.obj),
                            ![Top.id].ud = AddrOfSS(stack)]
  /\ UNCHANGED <<errs, done>>

\* the printing function hands one chunk (pointer, length) to the callback,
\* with the user data it was given
EmitChunk(data, length) ==
  /\ TopIs("printing")
  /\ Len(calls[Top.id].chunks) < MaxChunks
  /\ TextLen(calls[Top.id]) + length <= MaxText
  /\ calls[Top.id].ud \in 1..Len(stack)
  /\ stack' = stringCallback(stack, data, length, calls[Top.id].ud)
  /\ calls' = [calls EXCEPT ![Top.id].chunks =
                              Append(@, SubSeq(data, 1, length))]
  /\ UNCHANGED <<errs, done>>

\* the printing function returns
Return ==
  /\ TopIs("printing")
  /\ stack' = [stack EXCEPT ![Len(stack)].pc = "emit"]
  /\ calls' = [calls EXCEPT ![Top.id].status = "returned"]
  /\ UNCHANGED <<errs, done>>

\* the printing function throws: the frame is unwound, ss is destroyed
Throw ==
  /\ TopIs("printing")
  /\ stack' = SubSeq(stack, 1, Len(stack) - 1)
  /\ errs' = errs \o Unwind(Top.ss)
  /\ calls' = [calls EXCEPT ![Top.id].status = "thrown",
                            ![Top.id].out = @ \o Unwind(Top.ss)]
  /\ UNCHANGED done

\* the printing function never returns
Diverge ==
  /\ TopIs("printing")
  /\ stack' = [stack EXCEPT ![Len(stack)].pc = "hung"]
  /\ calls' = [calls EXCEPT ![Top.id].status = "hung"]
  /\ UNCHANGED <<errs, done>>

\* llvm::errs() << ss.str()
WriteText ==
  /\ TopIs("emit")
  /\ errs' = errs \o Str(Top.ss)
  /\ calls' = [calls EXCEPT ![Top.id].out = @ \o Str(Top.ss),
                            ![Top.id].acc = Top.ss]
  /\ stack' = [stack EXCEPT ![Len(stack)].pc = "newline"]
  /\ UNCHANGED done

\* ... << "\n"; and the function returns
WriteNewline ==
  /\ TopIs("newline")
  /\ errs' = errs \o Newline
  /\ calls' = [calls EXCEPT ![Top.id].out = @ \o Newline,
                            ![Top.id].status = "done"]
  /\ stack' = SubSeq(stack, 1, Len(stack) - 1)
  /\ done' = Append(done, Top.id)

Next ==
  \/ \E o \in Objs, m \in Messages : Call(o, m)
  \/ Seed
  \/ Invoke
  \/ \E data \in Buffers : \E length \in 0..Len(data) : EmitChunk(data, length)
  \/ Return
  \/ Throw
  \/ Diverge
  \/ WriteText
  \/ WriteNewline

Spec == Init /\ [][Next]_vars

\* straight-line code after func returns always runs to the end
FairSpec == Spec /\ WF_vars(WriteText) /\ WF_vars(WriteNewline)

----------------------------------------------------------------------------
(* Vocabulary of the properties *)

Ids == DOMAIN calls

IsDone(id) == calls[id].status = "done"

\* message, then the chunks in emission order, then one newline
Expected(c) == c.message \o Flatten(c.chunks) \o <<NL>>

RECURSIVE SumCount(_, _)
SumCount(ch, css) ==
  IF css = <<>> THEN 0 ELSE Count(ch, Head(css)) + SumCount(ch, Tail(css))

RECURSIVE ExpectedStream(_)
ExpectedStream(ids) ==
  IF ids = <<>> THEN <<>>
  ELSE Expected(calls[Head(ids)]) \o ExpectedStream(Tail(ids))

RECURSIVE InputNewlines(_)
InputNewlines(ids) ==
  IF ids = <<>> THEN 0
  ELSE Count(NL, calls[Head(ids)].message)
       + SumCount(NL, calls[Head(ids)].chunks)
       + InputNewlines(Tail(ids))

Pos(id) == CHOOSE k \in DOMAIN done : done[k] = id

----------------------------------------------------------------------------
(* C1: the text a completed call wrote to the stream is its message, then   *)
(* the chunks handed to the callback in emission order, then one newline.   *)
C1_OutputIsMessageChunksNewline ==
  \A id \in Ids :
    IsDone(id) =>
      calls[id].out =
        calls[id].message \o Flatten(calls[id].chunks) \o <<NL>>

C1_Witness ==
  \E i, j \in Ids :
    /\ IsDone(i)
    /\ calls[i].message # <<>>
    /\ Flatten(calls[i].chunks) # <<>>
    /\ calls[i].out = calls[i].message \o Flatten(calls[i].chunks) \o <<NL>>
    /\ IsDone(j)
    /\ Len(calls[j].chunks) = 2
    /\ calls[j].chunks[1] # <<>>
    /\ calls[j].chunks[2] # <<>>
    /\ calls[j].chunks[1] # calls[j].chunks[2]

(* C2: a completed call whose printing function emitted no chunk wrote the  *)
(* message followed by a newline, the empty message included.               *)
C2_NoChunks ==
  \A id \in Ids :
    (IsDone(id) /\ calls[id].chunks = <<>>) =>
      calls[id].out = Append(calls[id].message, NL)

C2_Witness ==
  \E i, j \in Ids :
    /\ IsDone(i) /\ calls[i].chunks = <<>> /\ calls[i].message = <<>>
    /\ IsDone(j) /\ calls[j].chunks = <<>> /\ calls[j].message # <<>>

(* C3: two completed calls with the same message whose chunk sequences have *)
(* the same concatenation wrote the same text, whatever the chunk           *)
(* boundaries.                                                              *)
C3_BoundaryInsensitive ==
  \A i, j \in Ids :
    ( /\ IsDone(i) /\ IsDone(j)
      /\ calls[i].message = calls[j].message
      /\ Flatten(calls[i].chunks) = Flatten(calls[j].chunks) )
    => calls[i].out = calls[j].out

C3_Witness ==
  \E i, j \in Ids :
    /\ IsDone(i) /\ IsDone(j)
    /\ calls[i].message = calls[j].message
    /\ Len(calls[i].chunks) = 1 /\ Len(calls[i].chunks[1]) = 2
    /\ Len(calls[j].chunks) = 2
    /\ Len(calls[j].chunks[1]) = 1 /\ Len(calls[j].chunks[2]) = 1
    /\ Flatten(calls[i].chunks) = Flatten(calls[j].chunks)

(* C4: a call invokes the printing function exactly once: not before the    *)
(* accumulator is seeded, once from then on, with the caller's object and   *)
(* the address of this call's own accumulator as user data.                 *)
C4_InvokedOnce ==
  /\ \A id \in Ids :
       /\ calls[id].invoked \in {0, 1}
       /\ calls[id].status # "active" => calls[id].invoked = 1
       /\ calls[id].invoked = 1 =>
            /\ calls[id].fobj = calls[id].obj
            /\ calls[id].ud = calls[id].depth
  /\ \A i \in DOMAIN stack :
       /\ calls[stack[i].id].depth = i
       /\ calls[stack[i].id].invoked = 0 <=> stack[i].pc \in {"seed", "invoke"}

C4_Witness ==
  \E id \in Ids :
    /\ IsDone(id)
    /\ calls[id].depth = 2
    /\ calls[id].invoked = 1
    /\ calls[id].obj # calls[calls[id].parent].obj

(* C5: every chunk contributes exactly its length: the text written has     *)
(* len(message) + sum of the chunk lengths + 1 bytes, and every NUL byte of *)
(* the message and of the chunks is in it.                                  *)
C5_LengthAndNuls ==
  \A id \in Ids :
    IsDone(id) =>
      /\ Len(calls[id].out) =
           Len(calls[id].message) + SumLen(calls[id].chunks) + 1
      /\ Count(0, calls[id].out) =
           Count(0, calls[id].message) + SumCount(0, calls[id].chunks)

C5_Witness ==
  \E id \in Ids :
    /\ IsDone(id)
    /\ Len(calls[id].chunks) = 2
    /\ calls[id].chunks[1] = <<0>>
    /\ calls[id].chunks[2] = <<97>>

(* C6 as stated: after N completed calls the stream holds exactly N lines,  *)
(* whatever the messages and chunks.                                        *)
C6_Original ==
  stack = <<>> => Count(NL, errs) = Len(done)

(* C6 as amended: every completed call writes exactly one newline of its    *)
(* own, last; the stream holds one line per completed call plus one per     *)
(* newline byte in the messages and chunks of those calls.                  *)
C6_OneNewlinePerCall ==
  stack = <<>> =>
    /\ Count(NL, errs) = Len(done) + InputNewlines(done)
    /\ InputNewlines(done) = 0 => Count(NL, errs) = Len(done)
    /\ done # <<>> => errs[Len(errs)] = NL

C6_Witness ==
  /\ stack = <<>>
  /\ Len(done) = 2
  /\ InputNewlines(done) = 0
  /\ \A k \in DOMAIN done : calls[done[k]].chunks # <<>>

(* C7: within a call the accumulator is empty, then seeded with the message *)
(* before the printing function is invoked, grows only by chunks while the  *)
(* printing function runs, and the stream gets the call's text only after   *)
(* the printing function has returned.                                      *)
C7_Ordering ==
  /\ \A i \in DOMAIN stack :
       LET f == stack[i]
           c == calls[f.id]
       IN /\ f.pc = "seed" =>
               f.ss = <<>> /\ c.invoked = 0 /\ c.chunks = <<>> /\ c.out = <<>>
          /\ f.pc = "invoke" =>
               f.ss = f.message /\ c.invoked = 0 /\ c.chunks = <<>>
               /\ c.out = <<>>
          /\ f.pc \in {"printing", "hung"} =>
               /\ c.invoked = 1 /\ c.out = <<>>
               /\ c.status \in {"active", "hung"}
               /\ SubSeq(f.ss, 1, Len(f.message)) = f.message
          /\ f.pc = "emit" => c.status = "returned" /\ c.out = <<>>
          /\ f.pc = "newline" => c.status = "returned" /\ c.out = f.ss
  /\ \A id \in Ids :
       calls[id].out # <<>> => calls[id].status \in {"returned", "done"}

C7_Witness ==
  /\ TopIs("newline")
  /\ Top.message # <<>>
  /\ calls[Top.id].chunks # <<>>
  /\ calls[Top.id].out = Top.ss

(* C8: every call starts from an empty accumulator, and the stream is the   *)
(* concatenation, in completion order, of texts each made of one call's own *)
(* message and chunks; calls made one after the other complete in call      *)
(* order.                                                                   *)
C8_PrivateAccumulator ==
  /\ \A i \in DOMAIN stack : stack[i].pc = "seed" => stack[i].ss = <<>>
  /\ errs = ExpectedStream(done)
              \o (IF TopIs("newline") THEN calls[Top.id].out ELSE <<>>)
  /\ TopIs("newline") =>
       calls[Top.id].out = Top.message \o Flatten(calls[Top.id].chunks)
  /\ \A k, l \in DOMAIN done :
       ( /\ k < l
         /\ calls[done[k]].parent = 0
         /\ calls[done[l]].parent = 0 ) => done[k] < done[l]

C8_Witness ==
  /\ Len(done) = 2
  /\ calls[done[1]].parent = 0
  /\ calls[done[2]].parent = 0
  /\ calls[done[1]].chunks # <<>>
  /\ Flatten(calls[done[1]].chunks) # <<>>
  /\ calls[done[2]].message # calls[done[1]].message

(* C9: a call whose printing function threw or never returned has written   *)
(* nothing to the stream, whatever it had accumulated; and a call whose     *)
(* printing function has returned eventually completes, having written its  *)
(* one text.                                                                *)
C9_NoPartialOutput ==
  /\ [](\A id \in Ids :
          calls[id].status \in {"thrown", "hung"} => calls[id].out = <<>>)
  /\ \A id \in 1..MaxCalls :
       (id \in Ids /\ calls[id].status = "returned")
         ~> (id \in Ids /\ IsDone(id) /\ calls[id].out = Expected(calls[id]))

C9_Witness ==
  \E i, j \in Ids :
    /\ calls[i].status = "thrown" /\ Flatten(calls[i].chunks) # <<>>
    /\ calls[j].status = "hung" /\ Flatten(calls[j].chunks) # <<>>
    /\ errs = <<>>

(* C10: under re-entry every frame's accumulator holds only that call's     *)
(* message and chunks; the outer call writes nothing before the inner call  *)
(* is over, the inner line precedes the outer line, and the outer text is   *)
(* still its message, its own chunks and a newline.                         *)
C10_Reentrancy ==
  /\ \A i \in DOMAIN stack :
       stack[i].pc \in {"printing", "hung", "emit", "newline"} =>
         stack[i].ss =
           stack[i].message \o Flatten(calls[stack[i].id].chunks)
  /\ \A c \in Ids :
       LET p == calls[c].parent
       IN p # 0 =>
            /\ calls[c].status \in {"active", "returned", "hung"} =>
                 calls[p].out = <<>> /\ ~IsDone(p)
            /\ IsDone(p) => calls[p].out = Expected(calls[p])
            /\ (IsDone(p) /\ IsDone(c)) => Pos(c) < Pos(p)

C10_Witness ==
  \E c \in Ids :
    /\ calls[c].parent # 0
    /\ IsDone(c) /\ IsDone(calls[c].parent)
    /\ Flatten(calls[c].chunks) # <<>>
    /\ Len(calls[calls[c].parent].chunks) = 2
    /\ calls[c].message # <<>>
    /\ errs = Expected(calls[c]) \o Expected(calls[calls[c].parent])

====
